---- MODULE Spec2Model ----
(***************************************************************************)
(* dynmail: the facade builder dynmail() of src/dynmail/dynmail.ts, its    *)
(* dispatch core (the inner send closure) and the entry points it hangs    *)
(* on the client object.  A provider's transport is an opaque asynchronous *)
(* function: it resolves with a Result or rejects.                         *)
(***************************************************************************)
EXTENDS Integers, Sequences, FiniteSets, TLC

\* ---------------------------------------------------------------- bounds
MaxProviders == 2
MaxSenders == 2
MaxAttachments == 1
\* sends in flight at once on one facade
MaxCalls == 2

\* ------------------------------------------------------------ value sets
\* Ids a provider may carry, and ids a sender may carry: "default", an id
\* both kinds may carry, and an id only providers carry.  A request may name
\* any of them, whether or not a configured entry has it.
Ids == {"default", "a", "b"}
SenderIds == {"default", "a"}
\* JavaScript's undefined, for an omitted optional field.
undefined == "undefined"

NoError == [name |-> "none", id |-> "none"]

\* provider.ts, class ProviderNotFoundError
ProviderNotFoundError(providerId) ==
  [name |-> "ProviderNotFoundError", id |-> providerId]

\* provider.ts, class AttachmentNotSupportedByProviderError
AttachmentNotSupportedByProviderError(providerId) ==
  [name |-> "AttachmentNotSupportedByProviderError", id |-> providerId]

\* sender.ts, class SenderNotFoundError
SenderNotFoundError(senderId) ==
  [name |-> "SenderNotFoundError", id |-> senderId]

\* the provider-specific error a transport reports in a failure Result
TransportError == [name |-> "ProviderError", id |-> "transport"]
\* the fault a transport raises when its promise rejects
TransportFault == [name |-> "Error", id |-> "rejected"]

\* util: Result<void, E>
Success == [status |-> "success", error |-> NoError]
Failure(e) == [status |-> "failure", error |-> e]
\* a Promise<void> that resolved: no payload
Void == [status |-> "void", error |-> NoError]
NoResult == [status |-> "none", error |-> NoError]

\* how a provider's transport settles
TransportOutcomes ==
  { [type |-> "resolve", result |-> Success, fault |-> NoError],
    [type |-> "resolve", result |-> Failure(TransportError), fault |-> NoError],
    [type |-> "reject", result |-> NoResult, fault |-> TransportFault] }

\* provider.ts, class Provider: id and options; the transport is the
\* provider's position in the list
Providers == [id : Ids, options : [supportsAttachments : BOOLEAN]]
\* sender.ts, Sender: id (name and email play no part in dispatch)
Senders == [id : SenderIds]

RECURSIVE SeqsUpTo(_, _)
SeqsUpTo(S, n) ==
  IF n = 0 THEN {<<>>}
  ELSE LET shorter == SeqsUpTo(S, n - 1)
       IN shorter \cup {Append(s, x) : s \in {t \in shorter : Len(t) = n - 1}, x \in S}

\* what a caller may hand to dynmail() as `providers` / `senders`: an array,
\* or (as the Validate* types evaluate to a string literal) a string
ProviderLists ==
  {[kind |-> "array", items |-> s] : s \in SeqsUpTo(Providers, MaxProviders)}
    \cup {[kind |-> "string", items |-> <<>>]}
SenderLists ==
  {[kind |-> "array", items |-> s] : s \in SeqsUpTo(Senders, MaxSenders)}
    \cup {[kind |-> "string", items |-> <<>>]}

\* DynmailParams
DynmailParams == [providers : ProviderLists, senders : SenderLists, safe : BOOLEAN]

\* the `attachments` field of a request: omitted, a string, or an array
Attachments ==
  {[type |-> undefined, length |-> 0], [type |-> "string", length |-> 0]}
    \cup {[type |-> "array", length |-> n] : n \in 0..MaxAttachments}

\* DynmailSendMailParams: the content fields are passed through untouched
DynmailSendMailParams ==
  [provider : Ids \cup {undefined},
   from : SenderIds \cup {undefined},
   attachments : Attachments,
   to : {"to"}, body : {"body"}, subject : {"subject"}, cc : {undefined},
   bcc : {undefined}, headers : {undefined}, replyTo : {undefined}]

\* the Error dynmail() throws: its message and, where the message names an
\* id, that id
NoConfigError == [message |-> "none", id |-> "none"]
ProviderListMessage ==
  [message |-> "You must provide at least one provider.", id |-> "none"]
SenderListMessage ==
  [message |-> "You must provide at least one sender.", id |-> "none"]
DuplicateProviderMessage(id) ==
  [message |-> "Duplicate provider ID found", id |-> id]
DuplicateSenderMessage(id) ==
  [message |-> "Duplicate sender ID found", id |-> id]

VARIABLES
  phase,     \* "new" before dynmail() is called, then "ready" or "failed"
  cfg,       \* the params dynmail() was called with (captured by its closures)
  error,     \* the Error dynmail() threw, or NoConfigError
  client,    \* the object dynmail() returned: property name -> entry point
  call,      \* the caller's last call of an entry point and how it completed
  frames,    \* concurrent sends: call number -> the invocation's own frame
  adapter,         \* what a provider factory was called with, and what came of it
  resolvedUrl,     \* plunk's `let resolvedUrl`
  resolvedApiKey,  \* the factory's `let resolvedApiKey`
  returned,        \* the values the baseUrl / apiKey functions have yielded so far
  calling,         \* the functions the step just taken has called
  sends            \* the sends in flight on the provider's transport

\* the state of a provider built by plunk() or resend()
transport == <<adapter, resolvedUrl, resolvedApiKey, returned, calling, sends>>

\* the state outside the facade and its single caller
elsewhere == <<frames, transport>>

vars == <<phase, cfg, error, client, call, elsewhere>>

NoCfg == [providers |-> [kind |-> "array", items |-> <<>>],
          senders |-> [kind |-> "array", items |-> <<>>], safe |-> FALSE]
NoClient == [k \in {} |-> [kind |-> "none", id |-> "none", mode |-> "none"]]
NoCall == [shape |-> "none"]
\* a call number not in use
Idle == [pc |-> "idle"]
NoFrames == [i \in 1..MaxCalls |-> Idle]

\* no factory called yet; a transport send not called; nothing fetched
NoAdapter == [built |-> "none"]
NoRequest == [url |-> "none", key |-> "none"]
Unsettled == [type |-> "none", result |-> NoResult, fault |-> NoError]
NoneCalled == [url |-> FALSE, key |-> FALSE]
\* afterKey: the send was called after a non-empty API key had been cached
IdleSend ==
  [pc |-> "idle", afterKey |-> FALSE, request |-> NoRequest, out |-> Unsettled]
NoSends == [i \in 1..MaxCalls |-> IdleSend]
NoTransport ==
  /\ adapter = NoAdapter
  /\ resolvedUrl = undefined
  /\ resolvedApiKey = undefined
  /\ returned = [url |-> {}, key |-> {}]
  /\ calling = NoneCalled
  /\ sends = NoSends

Init ==
  /\ phase = "new"
  /\ cfg = NoCfg
  /\ error = NoConfigError
  /\ client = NoClient
  /\ call = NoCall
  /\ frames = NoFrames
  /\ NoTransport

\* ------------------------------------------------- construction: dynmail()
\* dynmail(), the two runtime checks of the lists, in the order of the code;
\* NoConfigError when neither throws
Validate_SendersFirst(params) ==
  IF params.senders.kind # "array" \/ Len(params.senders.items) = 0
  THEN SenderListMessage
  ELSE IF params.providers.kind # "array" \/ Len(params.providers.items) = 0
  THEN ProviderListMessage
  ELSE NoConfigError

Validate_ProvidersOnly(params) ==
  IF params.providers.kind # "array" \/ Len(params.providers.items) = 0
  THEN ProviderListMessage
  ELSE NoConfigError

Validate(params) ==
  IF params.providers.kind # "array" \/ Len(params.providers.items) = 0
  THEN ProviderListMessage
  ELSE IF params.senders.kind # "array" \/ Len(params.senders.items) = 0
  THEN SenderListMessage
  ELSE NoConfigError

\* obj[key] = val on a JavaScript object: adds the property or overwrites it
Assign(obj, key, val) ==
  [k \in DOMAIN obj \cup {key} |-> IF k = key THEN val ELSE obj[k]]

\* the entry points: the generic send, and the { send } objects bound to a
\* provider id or to a sender id.  mode "result" hands the inner send's
\* promise back (safe branch), mode "throwing" awaits it and throws
\* result.error on a failure (non-safe branch)
GenericEntry(mode) == [kind |-> "generic", id |-> "none", mode |-> mode]
ProviderEntry(id, mode) == [kind |-> "provider", id |-> id, mode |-> mode]
SenderEntry(id, mode) == [kind |-> "sender", id |-> id, mode |-> mode]

\* for (const provider of providers) { if (provider.id === 'default')
\* continue; client[provider.id] = { send: ... } }
RECURSIVE ProviderMethods_KeepDefault(_, _, _, _)
ProviderMethods_KeepDefault(obj, providers, i, mode) ==
  IF i > Len(providers) THEN obj
  ELSE ProviderMethods_KeepDefault(
         Assign(obj, providers[i].id, ProviderEntry(providers[i].id, mode)),
         providers, i + 1, mode)

RECURSIVE ProviderMethods(_, _, _, _)
ProviderMethods(obj, providers, i, mode) ==
  IF i > Len(providers) THEN obj
  ELSE IF providers[i].id = "default"
  THEN ProviderMethods(obj, providers, i + 1, mode)
  ELSE ProviderMethods(
         Assign(obj, providers[i].id, ProviderEntry(providers[i].id, mode)),
         providers, i + 1, mode)

\* for (const sender of senders) { if (sender.id === 'default') continue;
\* client[sender.id] = { send: ... } }
RECURSIVE SenderMethods(_, _, _, _)
SenderMethods(obj, senders, i, mode) ==
  IF i > Len(senders) THEN obj
  ELSE IF senders[i].id = "default"
  THEN SenderMethods(obj, senders, i + 1, mode)
  ELSE SenderMethods(
         Assign(obj, senders[i].id, SenderEntry(senders[i].id, mode)),
         senders, i + 1, mode)

\* the client object of either branch of `if (safe)`
BuildClient(params) ==
  LET mode == IF params.safe THEN "result" ELSE "throwing"
      c0 == [k \in {"send"} |-> GenericEntry(mode)]
      c1 == ProviderMethods(c0, params.providers.items, 1, mode)
  IN SenderMethods(c1, params.senders.items, 1, mode)

\* dynmail(params): throws on an invalid list, else returns the client
dynmail ==
  /\ phase = "new"
  /\ \E params \in DynmailParams :
       /\ cfg' = params
       /\ call' = NoCall
       /\ IF Validate(params) # NoConfigError
          THEN /\ phase' = "failed"
               /\ error' = Validate(params)
               /\ client' = NoClient
          ELSE /\ phase' = "ready"
               /\ error' = NoConfigError
               /\ client' = BuildClient(params)
  /\ UNCHANGED elsewhere

\* ------------------------------------------- the types of dynmail.ts
\* The conditional types the compiler evaluates on the tuple type of a
\* configuration; a union of id literal types is a set of ids, `never` the
\* empty set.
RECURSIVE ExtractAllIDsOnProviders(_)
ExtractAllIDsOnProviders(T) ==
  IF Len(T) = 0 THEN {}
  ELSE {Head(T).id} \cup ExtractAllIDsOnProviders(Tail(T))

\* the first id that occurs again later in the tuple; {} for never
RECURSIVE FindDuplicateIDsOnProviders(_)
FindDuplicateIDsOnProviders(T) ==
  IF Len(T) = 0 THEN {}
  ELSE IF Head(T).id \in ExtractAllIDsOnProviders(Tail(T))
  THEN {Head(T).id}
  ELSE FindDuplicateIDsOnProviders(Tail(T))

RECURSIVE ExtractAllIDsOnSenders(_)
ExtractAllIDsOnSenders(T) ==
  IF Len(T) = 0 THEN {}
  ELSE {Head(T).id} \cup ExtractAllIDsOnSenders(Tail(T))

RECURSIVE FindDuplicateIDsOnSenders(_)
FindDuplicateIDsOnSenders(T) ==
  IF Len(T) = 0 THEN {}
  ELSE IF Head(T).id \in ExtractAllIDsOnSenders(Tail(T))
  THEN {Head(T).id}
  ELSE FindDuplicateIDsOnSenders(Tail(T))

\* the keys of CreateProviderMethods / CreateSenderMethods
RECURSIVE ExtractNonDefaultProviderIDs(_)
ExtractNonDefaultProviderIDs(T) ==
  IF Len(T) = 0 THEN {}
  ELSE IF Head(T).id = "default"
  THEN ExtractNonDefaultProviderIDs(Tail(T))
  ELSE {Head(T).id} \cup ExtractNonDefaultProviderIDs(Tail(T))

RECURSIVE ExtractNonDefaultSenderIDs(_)
ExtractNonDefaultSenderIDs(T) ==
  IF Len(T) = 0 THEN {}
  ELSE IF Head(T).id = "default"
  THEN ExtractNonDefaultSenderIDs(Tail(T))
  ELSE {Head(T).id} \cup ExtractNonDefaultSenderIDs(Tail(T))

\* ------------------------------------------------ the dispatch core: send
\* how a call completes: it returns a value or throws (for an async function:
\* its promise fulfils or rejects), with what the call did on the way: the
\* provider and the sender it resolved (positions in the lists, 0 = none)
\* and the transport invocations it made
Returned(result, provider, sender, invoked) ==
  [type |-> "return", result |-> result, fault |-> NoError,
   provider |-> provider, sender |-> sender, invoked |-> invoked]
Thrown(fault, provider, sender, invoked) ==
  [type |-> "throw", result |-> NoResult, fault |-> fault,
   provider |-> provider, sender |-> sender, invoked |-> invoked]

\* Array.prototype.find on the id: the first position whose id matches, 0
\* (undefined) when there is none
Find(list, id) ==
  IF \E i \in 1..Len(list) : list[i].id = id
  THEN CHOOSE i \in 1..Len(list) :
         /\ list[i].id = id
         /\ \A j \in 1..(i - 1) : list[j].id # id
  ELSE 0

\* list.find(x => x.id === id) || list[0]
FindOrFirst_NoFallback(list, id) == Find(list, id)

FindOrFirst_Positional(list, id) == IF Len(list) > 0 THEN 1 ELSE 0

FindOrFirst(list, id) ==
  IF Find(list, id) # 0 THEN Find(list, id)
  ELSE IF Len(list) > 0 THEN 1 ELSE 0

\* params.provider ?? 'default', params.from ?? 'default'
OrDefault(id) == IF id = undefined THEN "default" ELSE id

\* the condition of the capability check
RejectsAttachments_AnyArray(provider, attachments) ==
  \/ attachments.type = "string"
  \/ /\ ~provider.options.supportsAttachments
     /\ attachments.type = "array"

RejectsAttachments(provider, attachments) ==
  \/ attachments.type = "string"
  \/ /\ ~provider.options.supportsAttachments
     /\ attachments.type = "array"
     /\ attachments.length > 0

\* the argument of provider.send(...)
SendMailParams(sender, params) ==
  [from |-> sender, to |-> params.to, html |-> params.body,
   subject |-> params.subject, bcc |-> params.bcc,
   attachments |-> params.attachments, cc |-> params.cc,
   headers |-> params.headers, replyTo |-> params.replyTo]

\* a failure of the core: a failure Result in safe mode, thrown otherwise
Fail_AfterTransport(safe, e, provider, sender) ==
  IF safe THEN Returned(Failure(e), provider, sender, <<[provider |-> provider]>>)
  ELSE Thrown(e, provider, sender, <<[provider |-> provider]>>)

Fail(safe, e, provider, sender) ==
  IF safe THEN Returned(Failure(e), provider, sender, <<>>)
  ELSE Thrown(e, provider, sender, <<>>)

\* const send = async (params) => { ... }, with the way the transport it
\* may invoke settles
send(c, params, tout) ==
  LET providers == c.providers.items
      senders == c.senders.items
      providerId == OrDefault(params.provider)
      provider == FindOrFirst(providers, providerId)
      senderId == OrDefault(params.from)
      sender == FindOrFirst(senders, senderId)
  IN IF provider = 0
     THEN Fail(c.safe, ProviderNotFoundError(providerId), 0, 0)
     ELSE IF RejectsAttachments(providers[provider], params.attachments)
     THEN Fail(c.safe, AttachmentNotSupportedByProviderError(providerId),
               provider, 0)
     ELSE IF sender = 0
     THEN Fail(c.safe, SenderNotFoundError(senderId), provider, 0)
     ELSE LET invoked == <<[provider |-> provider,
                            params |-> SendMailParams(sender, params)]>>
          IN IF tout.type = "resolve"
             THEN Returned(tout.result, provider, sender, invoked)
             ELSE Thrown(tout.fault, provider, sender, invoked)

\* const result = await send(...); if (result.status === 'failure') throw
\* result.error  -- the body of every entry point of the non-safe branch
ThrowOnFailure_Swallow(r) ==
  IF r.type = "throw" THEN r
  ELSE Returned(Void, r.provider, r.sender, r.invoked)

ThrowOnFailure(r) ==
  IF r.type = "throw" THEN r
  ELSE IF r.result.status = "failure"
  THEN Thrown(r.result.error, r.provider, r.sender, r.invoked)
  ELSE Returned(Void, r.provider, r.sender, r.invoked)

\* an entry point applied to the caller's params
Apply(entry, c, params, tout) ==
  LET filled == IF entry.kind = "provider"
                THEN [params EXCEPT !.provider = entry.id]
                ELSE IF entry.kind = "sender"
                THEN [params EXCEPT !.from = entry.id]
                ELSE params
      r == send(c, filled, tout)
  IN IF entry.mode = "throwing" THEN ThrowOnFailure(r) ELSE r

\* ------------------------------------------------------------ the caller
\* client.send(params)
GenericSend ==
  /\ phase = "ready"
  /\ call.shape = "none"
  /\ \E params \in DynmailSendMailParams, tout \in TransportOutcomes :
       call' = [shape |-> "generic", key |-> "send", params |-> params,
                tout |-> tout,
                out |-> Apply(client["send"], cfg, params, tout)]
  /\ UNCHANGED <<phase, cfg, error, client>>
  /\ UNCHANGED elsewhere

\* client[key].send(params), for a property holding a { send } object.  The
\* types let the caller leave out `provider` under a provider's id
\* (CreateProviderMethods) and `from` under a sender's id
\* (CreateSenderMethods).
BoundSend ==
  /\ phase = "ready"
  /\ call.shape = "none"
  /\ \E key \in DOMAIN client :
       /\ client[key].kind # "generic"
       /\ \E params \in DynmailSendMailParams, tout \in TransportOutcomes :
            /\ \/ /\ key \in ExtractNonDefaultProviderIDs(cfg.providers.items)
                  /\ params.provider = undefined
               \/ /\ key \in ExtractNonDefaultSenderIDs(cfg.senders.items)
                  /\ params.from = undefined
            /\ call' = [shape |-> "bound", key |-> key, params |-> params,
                        tout |-> tout,
                        out |-> Apply(client[key], cfg, params, tout)]
  /\ UNCHANGED <<phase, cfg, error, client>>
  /\ UNCHANGED elsewhere

\* the caller has looked at how the call completed and lets go of it
Discard ==
  /\ call.shape # "none"
  /\ call' = NoCall
  /\ UNCHANGED <<phase, cfg, error, client>>
  /\ UNCHANGED elsewhere

Next ==
  \/ dynmail
  \/ GenericSend
  \/ BoundSend
  \/ Discard

Spec == Init /\ [][Next]_vars

\* ------------------------------------------- sends in flight at one time
\* A facade with several sends in flight.  JavaScript runs one invocation at
\* a time until it suspends; the inner send suspends only in the promise of
\* provider.send(...), so a send is two steps: all of lines 52-102 when it is
\* called, and the rest when the transport settles.  The variables of an
\* invocation (params, providerId, provider, senderId, sender) are locals of
\* the arrow function: every invocation has its own.

\* the configurations of these runs: two providers, one of them "default"
\* and standing second, with every combination of capabilities; a "default"
\* sender and a named one; both modes
ConcParams ==
  [providers : {[kind |-> "array",
                 items |-> <<[id |-> "a", options |-> [supportsAttachments |-> x]],
                             [id |-> "default", options |-> [supportsAttachments |-> y]]>>]
                  : x \in BOOLEAN, y \in BOOLEAN},
   senders : {[kind |-> "array", items |-> <<[id |-> "default"], [id |-> "a"]>>]},
   safe : BOOLEAN]

\* the requests of these runs: `provider` and `from` omitted or naming an id
\* other than "default" (naming "default" is the same as omitting the field,
\* line 52 and line 85), no attachments or a full list of them
ConcRequests ==
  {r \in DynmailSendMailParams :
     /\ r.provider # "default"
     /\ r.from # "default"
     /\ \/ r.attachments.type = undefined
        \/ r.attachments.type = "array" /\ r.attachments.length = MaxAttachments}

\* a transport that has not been asked
NotInvoked == [type |-> "none", result |-> NoResult, fault |-> NoError]

InitConc ==
  /\ phase = "ready"
  /\ cfg \in ConcParams
  /\ error = NoConfigError
  /\ client = BuildClient(cfg)
  /\ call = NoCall
  /\ frames = NoFrames
  /\ NoTransport

\* lines 52-102 of the inner send: what it has resolved and invoked when it
\* reaches provider.send(...), or how it ended before that.  None of it
\* depends on how the transport will settle.
Before(c, params) ==
  send(c, params, [type |-> "resolve", result |-> Success, fault |-> NoError])

\* the generic entry point's part after the inner send's promise settled
After(entry, r) == IF entry.mode = "throwing" THEN ThrowOnFailure(r) ELSE r

\* client.send(params), up to the suspension (or to the end, when the send
\* fails before it invokes a transport)
Issue(i) ==
  /\ phase = "ready"
  /\ frames[i].pc = "idle"
  /\ \E params \in ConcRequests :
       LET r == Before(cfg, params)
       IN frames' = [frames EXCEPT ![i] =
            IF r.invoked = <<>>
            THEN [pc |-> "done", params |-> params, tout |-> NotInvoked,
                  out |-> After(client["send"], r)]
            ELSE [pc |-> "awaiting", params |-> params, provider |-> r.provider,
                  sender |-> r.sender, invoked |-> r.invoked]]
  /\ UNCHANGED <<phase, cfg, error, client, call, transport>>

\* the frame an invocation resumes with when its transport settles
Frame_Shared(fs, i) ==
  fs[CHOOSE j \in DOMAIN fs :
       /\ fs[j].pc = "awaiting"
       /\ \A k \in DOMAIN fs : fs[k].pc = "awaiting" => k <= j]

Frame(fs, i) == fs[i]

\* how a send ends once its transport has settled as tout
Settled(f, tout) ==
  After(client["send"],
        IF tout.type = "resolve"
        THEN Returned(tout.result, f.provider, f.sender, f.invoked)
        ELSE Thrown(tout.fault, f.provider, f.sender, f.invoked))

\* the transport of call i settles and the send runs to its end
Settle_Shift(i) ==
  /\ frames[i].pc = "awaiting"
  /\ \E tout \in TransportOutcomes :
       /\ frames' = [frames EXCEPT ![i] =
            [pc |-> "done", params |-> frames[i].params, tout |-> tout,
             out |-> Settled(Frame(frames, i), tout)]]
       /\ cfg' = IF tout.type = "reject"
                 THEN [cfg EXCEPT !.providers.items = Tail(@)]
                 ELSE cfg
  /\ UNCHANGED <<phase, error, client, call, transport>>

Settle(i) ==
  /\ frames[i].pc = "awaiting"
  /\ \E tout \in TransportOutcomes :
       frames' = [frames EXCEPT ![i] =
         [pc |-> "done", params |-> frames[i].params, tout |-> tout,
          out |-> Settled(Frame(frames, i), tout)]]
  /\ UNCHANGED <<phase, cfg, error, client, call, transport>>

\* the caller lets go of a finished send; its number is free for another
Forget(i) ==
  /\ frames[i].pc = "done"
  /\ frames' = [frames EXCEPT ![i] = Idle]
  /\ UNCHANGED <<phase, cfg, error, client, call, transport>>

NextConc ==
  \/ \E i \in 1..MaxCalls : Issue(i)
  \/ \E i \in 1..MaxCalls : Settle(i)
  \/ \E i \in 1..MaxCalls : Forget(i)

SpecConc == InitConc /\ [][NextConc]_vars

\* ------------------------------------------------ the provider factories
\* plunk() of provider/plunk/plunk.ts and resend() of provider/resend: the
\* check of the API key at construction, and the transport they build, with
\* several sends on it in flight.  A transport send runs until it awaits:
\* the promise of a baseUrl function, the promise of an apiKey function, or
\* the fetch.

\* the facade's variables, which a provider does not touch
facade == <<phase, cfg, error, client, call, frames>>

\* process.env.PLUNK_API_KEY / RESEND_API_KEY as the factory sees it: no
\* `process` at all, the variable unset, empty, or set; `??` does not look
\* at it when the parameter is given
NoProcess == "no process"
NotRead == "not read"
EnvValues == {NoProcess, undefined, "", "sk_env"}

\* a value of the `apiKey` or `baseUrl` parameter: omitted, a string, or a
\* function that returns a string or a promise of one
NotGiven == [type |-> undefined, value |-> undefined]
String(v) == [type |-> "string", value |-> v]
Function(returns) == [type |-> "function", value |-> returns]
False == [type |-> "boolean", value |-> FALSE]
ApiKeyParams ==
  {NotGiven, String(""), String("sk_param"), Function("string"), Function("promise")}
BaseUrlParams ==
  {NotGiven, String("https://plunk.example"), Function("string"), Function("promise")}

\* what a baseUrl function and an apiKey function may yield
UrlValues == {"", "u1", "u2"}
KeyValues == {"", "k1", "k2"}

\* params?.apiKey ?? (typeof process !== 'undefined' && process.env.X)
ApiKeyOrEnv(apiKey, env) ==
  IF apiKey.type # undefined THEN apiKey
  ELSE IF env = NoProcess THEN False
  ELSE IF env = undefined THEN NotGiven
  ELSE String(env)

\* !apiKey
Falsy_OnlyUndefined(x) == x.type = undefined

Falsy(x) ==
  \/ x.type = undefined
  \/ x.type = "boolean" /\ ~x.value
  \/ x.type = "string" /\ x.value = ""

\* the Error a factory throws
MissingApiKey(kind) == [message |-> "Missing API key", id |-> kind]

\* the `options` a factory hands to `new Provider(...)`: an object with
\* supportsAttachments, or no such property (NotGiven); the constructor
\* stores it as it is, this.options = params.options
Options(supportsAttachments) ==
  [type |-> "object", supportsAttachments |-> supportsAttachments]

\* the factory up to `return new Provider(...)`
Factory(kind, apiKey, baseUrl, env, options) ==
  [kind |-> kind,
   params |-> [apiKey |-> apiKey, baseUrl |-> baseUrl],
   options |-> IF Falsy(ApiKeyOrEnv(apiKey, env)) THEN NotGiven ELSE options,
   env |-> IF apiKey.type # undefined THEN NotRead ELSE env,
   apiKey |-> ApiKeyOrEnv(apiKey, env),
   built |-> IF Falsy(ApiKeyOrEnv(apiKey, env)) THEN "threw" ELSE "provider",
   error |-> IF Falsy(ApiKeyOrEnv(apiKey, env)) THEN MissingApiKey(kind)
             ELSE NoConfigError]

plunk ==
  /\ adapter = NoAdapter
  /\ \E apiKey \in ApiKeyParams, baseUrl \in BaseUrlParams, env \in EnvValues :
       adapter' = Factory("plunk", apiKey, baseUrl, env, Options(FALSE))
  /\ UNCHANGED <<resolvedUrl, resolvedApiKey, returned, calling, sends, facade>>

resend ==
  /\ adapter = NoAdapter
  /\ \E apiKey \in ApiKeyParams, env \in EnvValues :
       adapter' = Factory("resend", apiKey, NotGiven, env, NotGiven)
  /\ UNCHANGED <<resolvedUrl, resolvedApiKey, returned, calling, sends, facade>>

\* !resolvedUrl, !resolvedApiKey
NeedsResolve_Always(resolved) == TRUE

NeedsResolve(resolved) == resolved = undefined \/ resolved = ""

\* how one of the two `if (!resolved...)` blocks leaves: it goes on with the
\* cache holding `value`, it awaits the promise a function returned, or the
\* function threw; `logged` is what the function returned, if it was called
Go(value) == [next |-> "go", value |-> value, logged |-> {}, called |-> FALSE]
Yield(value) == [next |-> "go", value |-> value, logged |-> {value}, called |-> TRUE]
Await(value) == [next |-> "await", value |-> value, logged |-> {}, called |-> TRUE]
Throw(value) == [next |-> "throw", value |-> value, logged |-> {}, called |-> TRUE]

\* plunk.ts lines 54-68; resend has no such block
BaseUrlStage(url) ==
  IF adapter.kind = "resend" THEN {Go(url)}
  ELSE IF ~NeedsResolve(url) THEN {Go(url)}
  ELSE IF adapter.params.baseUrl.type = "string"
  THEN {Go(adapter.params.baseUrl.value)}
  ELSE IF adapter.params.baseUrl.type = undefined
  THEN {Go("https://api.useplunk.com")}
  ELSE IF adapter.params.baseUrl.value = "string"
  THEN {Yield(v) : v \in UrlValues} \cup {Throw(url)}
  ELSE {Await(url)}

\* plunk.ts lines 70-82
ApiKeyStage(key) ==
  IF ~NeedsResolve(key) THEN {Go(key)}
  ELSE IF adapter.apiKey.type = "string" THEN {Go(adapter.apiKey.value)}
  ELSE IF adapter.apiKey.value = "string"
  THEN {Yield(v) : v \in KeyValues} \cup {Throw(key)}
  ELSE {Await(key)}

\* the first argument of fetch
RequestUrl(url) ==
  IF adapter.kind = "resend" THEN "https://api.resend.com/emails" ELSE url

\* createPlunkError / createResendError, by the status they are given
createError(kind, status) ==
  [name |-> IF kind = "plunk" THEN "PlunkError" ELSE "ResendError", id |-> status]

\* how the promise of a transport send settles
Resolves(result) == [type |-> "resolve", result |-> result, fault |-> NoError]
Rejects == [type |-> "reject", result |-> NoResult, fault |-> TransportFault]
Fetching(url, key) ==
  [IdleSend EXCEPT !.pc = "fetching", !.request = [url |-> RequestUrl(url), key |-> key]]
Done(out) == [IdleSend EXCEPT !.pc = "done", !.out = out]

\* what fetch does: a response, ok or not, or it throws
HttpOutcomes ==
  {[type |-> "response", ok |-> TRUE, status |-> 200],
   [type |-> "response", ok |-> FALSE, status |-> 401],
   [type |-> "thrown", ok |-> FALSE, status |-> 0]}

\* a non-empty value has been cached
EverCached(log, resolved) ==
  (\E v \in log : v # "") \/ resolved \notin {undefined, ""}

\* lines 70-93, entered by send i with the url cache holding `url`: the
\* apiKey block, then the call of fetch
ToApiKey(i, url, urlLog, urlCalled) ==
  /\ resolvedUrl' = url
  /\ \E k \in ApiKeyStage(resolvedApiKey) :
       /\ resolvedApiKey' = k.value
       /\ returned' = [url |-> urlLog, key |-> returned.key \cup k.logged]
       /\ calling' = [url |-> urlCalled, key |-> k.called]
       /\ sends' = [sends EXCEPT ![i] =
            IF k.next = "go" THEN Fetching(url, k.value)
            ELSE IF k.next = "await" THEN [IdleSend EXCEPT !.pc = "awaitKey"]
            ELSE Done(Rejects)]

\* provider.send(sendParams), up to its first await
TransportSend(i) ==
  /\ adapter.built = "provider"
  /\ sends[i].pc = "idle"
  /\ \E u \in BaseUrlStage(resolvedUrl) :
       IF u.next = "go"
       THEN ToApiKey(i, u.value, returned.url \cup u.logged, u.called)
       ELSE /\ sends' = [sends EXCEPT ![i] =
                 IF u.next = "await"
                 THEN [IdleSend EXCEPT
                         !.pc = "awaitUrl",
                         !.afterKey = EverCached(returned.key, resolvedApiKey)]
                 ELSE Done(Rejects)]
            /\ calling' = [url |-> TRUE, key |-> FALSE]
            /\ UNCHANGED <<resolvedUrl, resolvedApiKey, returned>>
  /\ UNCHANGED <<adapter, facade>>

\* resolvedUrl = await result: the promise of the baseUrl function settles
BaseUrlSettles(i) ==
  /\ sends[i].pc = "awaitUrl"
  /\ \/ \E v \in UrlValues : ToApiKey(i, v, returned.url \cup {v}, FALSE)
     \/ /\ sends' = [sends EXCEPT ![i] = Done(Rejects)]
        /\ calling' = NoneCalled
        /\ UNCHANGED <<resolvedUrl, resolvedApiKey, returned>>
  /\ UNCHANGED <<adapter, facade>>

\* resolvedApiKey = await result: the promise of the apiKey function
\* settles; on a value the send goes on to call fetch
ApiKeySettles(i) ==
  /\ sends[i].pc = "awaitKey"
  /\ \/ \E v \in KeyValues :
          /\ resolvedApiKey' = v
          /\ returned' = [returned EXCEPT !.key = @ \cup {v}]
          /\ sends' = [sends EXCEPT ![i] = Fetching(resolvedUrl, v)]
     \/ /\ sends' = [sends EXCEPT ![i] = Done(Rejects)]
        /\ UNCHANGED <<resolvedApiKey, returned>>
  /\ calling' = NoneCalled
  /\ UNCHANGED <<resolvedUrl, adapter, facade>>

\* the try block once fetch has settled
Response(kind, http) ==
  IF http.type = "thrown" THEN Resolves(Failure(createError(kind, 500)))
  ELSE IF ~http.ok THEN Resolves(Failure(createError(kind, http.status)))
  ELSE Resolves(Success)

FetchSettles(i) ==
  /\ sends[i].pc = "fetching"
  /\ \E http \in HttpOutcomes :
       sends' = [sends EXCEPT ![i] = Done(Response(adapter.kind, http))]
  /\ calling' = NoneCalled
  /\ UNCHANGED <<resolvedUrl, resolvedApiKey, returned, adapter, facade>>

\* the caller lets go of a settled send
Release(i) ==
  /\ sends[i].pc = "done"
  /\ sends' = [sends EXCEPT ![i] = IdleSend]
  /\ calling' = NoneCalled
  /\ UNCHANGED <<resolvedUrl, resolvedApiKey, returned, adapter, facade>>

\* the condition of the facade's capability check as JavaScript evaluates
\* it on a provider whose `options` may be undefined: `typeof attachments
\* === 'string'` short-circuits the `||`; otherwise
\* provider.options.supportsAttachments is read first, and the read of a
\* property of undefined raises a TypeError
CapabilityCheck(options, attachments) ==
  IF attachments.type = "string" THEN "reject"
  ELSE IF options.type = undefined THEN "TypeError"
  ELSE IF /\ ~options.supportsAttachments
          /\ attachments.type = "array"
          /\ attachments.length > 0
  THEN "reject"
  ELSE "pass"

\* dynmail({ providers: [adapter], ... }).send(params) up to the end of the
\* capability check, on a facade whose only provider is the built adapter;
\* the caller keeps the outcome of the latest such send
FacadeSend ==
  /\ adapter.built = "provider"
  /\ call.shape \in {"none", "check"}
  /\ \E attachments \in Attachments :
       call' = [shape |-> "check",
                out |-> CapabilityCheck(adapter.options, attachments)]
  /\ calling' = NoneCalled
  /\ UNCHANGED <<phase, cfg, error, client, frames>>
  /\ UNCHANGED <<adapter, resolvedUrl, resolvedApiKey, returned, sends>>

NextAdapter ==
  \/ plunk
  \/ resend
  \/ FacadeSend
  \/ \E i \in 1..MaxCalls : TransportSend(i)
  \/ \E i \in 1..MaxCalls : BaseUrlSettles(i)
  \/ \E i \in 1..MaxCalls : ApiKeySettles(i)
  \/ \E i \in 1..MaxCalls : FetchSettles(i)
  \/ \E i \in 1..MaxCalls : Release(i)

SpecAdapter == Init /\ [][NextAdapter]_vars

\* ----------------------------------------------------------------- claims
providers == cfg.providers.items
senders == cfg.senders.items

\* the caller called client.send(params)
GenericCall == call.shape = "generic"

\* the call ended in the failure e without invoking a transport: returned
\* as a failure Result by a safe facade, raised by a non-safe one
RejectedWith(e) ==
  /\ call.out.invoked = <<>>
  /\ IF cfg.safe
     THEN call.out.type = "return" /\ call.out.result = Failure(e)
     ELSE call.out.type = "throw" /\ call.out.fault = e

\* C1 (as claimed): a send naming a provider id that no configured provider
\* has ends in ProviderNotFound, and one naming a sender id that no
\* configured sender has ends in SenderNotFound, without any transport
\* being invoked.
C1_UnknownIdRejected ==
  GenericCall =>
    /\ (call.params.provider \notin ({undefined} \cup ExtractAllIDsOnProviders(providers)))
         => RejectedWith(ProviderNotFoundError(call.params.provider))
    /\ (/\ call.params.provider \in ({undefined} \cup ExtractAllIDsOnProviders(providers))
        /\ call.params.attachments.type = undefined
        /\ call.params.from \notin ({undefined} \cup ExtractAllIDsOnSenders(senders)))
       => RejectedWith(SenderNotFoundError(call.params.from))

\* C2 (as claimed): dynmail() on a list in which an id occurs twice throws a
\* configuration error that names the id and returns no facade.
C2_UniquenessEnforced ==
  (phase # "new" /\ Len(providers) > 0 /\ Len(senders) > 0) =>
    /\ \A id \in FindDuplicateIDsOnProviders(providers) :
         phase = "failed" /\ error = DuplicateProviderMessage(id)
    /\ \A id \in FindDuplicateIDsOnSenders(senders) :
         phase = "failed" /\ error = DuplicateSenderMessage(id)

\* C3: when a provider has the id "default", a send that omits `provider`
\* resolves the first entry with that id, wherever it stands in the list, and
\* invokes no other provider's transport; when a sender has the id "default",
\* a send that omits `from` passes the first sender with that id.
C3_DefaultResolution ==
  GenericCall =>
    /\ (/\ call.params.provider = undefined
        /\ \E i \in 1..Len(providers) : providers[i].id = "default")
       => /\ call.out.provider \in 1..Len(providers)
          /\ providers[call.out.provider].id = "default"
          /\ \A j \in 1..(call.out.provider - 1) : providers[j].id # "default"
          /\ \A n \in 1..Len(call.out.invoked) :
               call.out.invoked[n].provider = call.out.provider
    /\ (/\ call.params.from = undefined
        /\ \E i \in 1..Len(senders) : senders[i].id = "default"
        /\ call.out.invoked # <<>>)
       => \A n \in 1..Len(call.out.invoked) :
            LET from == call.out.invoked[n].params.from
            IN /\ from \in 1..Len(senders)
               /\ senders[from].id = "default"
               /\ \A j \in 1..(from - 1) : senders[j].id # "default"

\* C3 witness: "default" stands second in both lists, the send omitted both
\* fields, and the second provider's transport got the second sender.
C3_Witness ==
  /\ GenericCall
  /\ call.params.provider = undefined /\ call.params.from = undefined
  /\ Len(providers) = 2 /\ providers[1].id = "a" /\ providers[2].id = "default"
  /\ Len(senders) = 2 /\ senders[1].id = "a" /\ senders[2].id = "default"
  /\ Len(call.out.invoked) = 1
  /\ call.out.invoked[1].provider = 2
  /\ call.out.invoked[1].params.from = 2

\* C4: when no provider has the id "default", a send that omits `provider`
\* resolves the first provider of the list; when no sender has the id
\* "default", a send that omits `from` passes the first sender.
C4_PositionalFallback ==
  GenericCall =>
    /\ (/\ call.params.provider = undefined
        /\ \A i \in 1..Len(providers) : providers[i].id # "default")
       => /\ call.out.provider = 1
          /\ \A n \in 1..Len(call.out.invoked) : call.out.invoked[n].provider = 1
    /\ (/\ call.params.from = undefined
        /\ \A i \in 1..Len(senders) : senders[i].id # "default"
        /\ call.out.invoked # <<>>)
       => \A n \in 1..Len(call.out.invoked) :
            call.out.invoked[n].params.from = 1

\* C4 witness: two providers with distinct ids, none called "default", and
\* no sender called "default"; the send omitted both fields and the first
\* provider got the first sender.
C4_Witness ==
  /\ GenericCall
  /\ call.params.provider = undefined /\ call.params.from = undefined
  /\ Len(providers) = 2 /\ providers[1].id = "a" /\ providers[2].id = "b"
  /\ Len(senders) >= 1 /\ \A i \in 1..Len(senders) : senders[i].id = "a"
  /\ Len(call.out.invoked) = 1
  /\ call.out.invoked[1].provider = 1
  /\ call.out.invoked[1].params.from = 1

\* the call failed with AttachmentNotSupportedByProviderError
AttachmentsNotSupported ==
  \/ /\ call.out.type = "return"
     /\ call.out.result.status = "failure"
     /\ call.out.result.error.name = "AttachmentNotSupportedByProviderError"
  \/ /\ call.out.type = "throw"
     /\ call.out.fault.name = "AttachmentNotSupportedByProviderError"

\* the call ended as a successful send: { status: 'success' } from a safe
\* facade, a normal return without payload from a non-safe one
Succeeded ==
  /\ call.out.type = "return"
  /\ call.out.result = (IF cfg.safe THEN Success ELSE Void)

\* C5: on a provider with supportsAttachments = false a send with one or
\* more attachments fails with AttachmentsNotSupported and invokes no
\* transport; with no attachments (field omitted, or an empty list) it
\* passes the gate: the transport is invoked, and when the transport
\* succeeds the send succeeds.
C5_CapabilityGate ==
  (/\ GenericCall
   /\ call.out.provider # 0
   /\ ~providers[call.out.provider].options.supportsAttachments)
  => /\ (call.params.attachments.type = "array" /\ call.params.attachments.length >= 1)
        => (AttachmentsNotSupported /\ call.out.invoked = <<>>)
     /\ (\/ call.params.attachments.type = undefined
         \/ (call.params.attachments.type = "array" /\ call.params.attachments.length = 0))
        => /\ ~AttachmentsNotSupported
           /\ Len(call.out.invoked) = 1
           /\ call.out.invoked[1].provider = call.out.provider
           /\ (call.tout.type = "resolve" /\ call.tout.result = Success) => Succeeded

\* C5 witness: both halves on one configuration cannot share a state; this
\* is the pass with an empty attachment list on a provider that would have
\* refused a non-empty one, the transport succeeding.
C5_Witness ==
  /\ GenericCall
  /\ call.out.provider # 0
  /\ ~providers[call.out.provider].options.supportsAttachments
  /\ call.params.attachments = [type |-> "array", length |-> 0]
  /\ Len(call.out.invoked) = 1
  /\ call.tout.result = Success
  /\ Succeeded

\* what the generic send of the facade built from the same configuration
\* with the other value of `safe` does with the same params and the same
\* transport outcome
OtherMode ==
  LET other == [cfg EXCEPT !.safe = ~cfg.safe]
  IN Apply(BuildClient(other)["send"], other, call.params, call.tout)
SafeOut == IF cfg.safe THEN call.out ELSE OtherMode
NonSafeOut == IF cfg.safe THEN OtherMode ELSE call.out

\* C6 (as claimed): the safe generic send returns { status: 'failure',
\* error: E } exactly when the non-safe generic send raises E; in every other
\* case the safe one returns { status: 'success' } and the non-safe one
\* returns normally without payload.
C6_ModeSymmetry ==
  GenericCall =>
    /\ (SafeOut.type = "return" /\ SafeOut.result.status = "failure")
         <=> (NonSafeOut.type = "throw")
    /\ (NonSafeOut.type = "throw") => (SafeOut.result.error = NonSafeOut.fault)
    /\ (NonSafeOut.type # "throw")
         => /\ SafeOut.type = "return" /\ SafeOut.result = Success
            /\ NonSafeOut.type = "return" /\ NonSafeOut.result = Void

\* C7 (as claimed): every call of an entry point of a safe facade completes
\* by returning a Result, status 'success' or 'failure'; none raises.
C7_SafeNeverRaises ==
  (cfg.safe /\ call.shape # "none") =>
    /\ call.out.type = "return"
    /\ call.out.result.status \in {"success", "failure"}

\* the generic send (lines 51-113, wrapped as in lines 161-168 when not safe)
\* applied to params
Generic(params) ==
  Apply(GenericEntry(IF cfg.safe THEN "result" ELSE "throwing"), cfg, params,
        call.tout)

\* C8 (as claimed): the bound entry point under a non-default provider id p
\* behaves as the generic send with provider: p, the one under a non-default
\* sender id s as the generic send with from: s -- same transport invoked
\* with the same arguments, same result or fault.
C8_BoundEquivalence ==
  call.shape = "bound" =>
    /\ call.key \in ExtractNonDefaultProviderIDs(providers)
         => call.out = Generic([call.params EXCEPT !.provider = call.key])
    /\ call.key \in ExtractNonDefaultSenderIDs(senders)
         => call.out = Generic([call.params EXCEPT !.from = call.key])

\* the names under which the client holds a bound entry point
BoundNames == {k \in DOMAIN client : client[k].kind \in {"provider", "sender"}}

\* C9: the names of the bound entry points of a constructed facade are
\* exactly the provider ids and sender ids other than "default", whatever
\* the mode: each such id names one, "default" names none.
C9_BoundEntryPoints ==
  phase = "ready" =>
    /\ BoundNames = ({providers[i].id : i \in 1..Len(providers)}
                       \cup {senders[i].id : i \in 1..Len(senders)})
                      \ {"default"}
    /\ "default" \notin DOMAIN client
    /\ \A k \in BoundNames :
         client[k].mode = (IF cfg.safe THEN "result" ELSE "throwing")

\* C9 witness: a facade whose lists hold "default" and another id each.
C9_Witness ==
  /\ phase = "ready"
  /\ \E i \in 1..Len(providers) : providers[i].id = "default"
  /\ \E i \in 1..Len(senders) : senders[i].id = "default"
  /\ BoundNames = {"a", "b"}

\* C10: dynmail() throws when the provider list is empty ("at least one
\* provider") and when the sender list is empty ("at least one sender"),
\* whatever `safe` is; the provider list is checked first; after the throw
\* there is no client, so no entry point and no send.
C10_NonEmptyValidation ==
  phase # "new" =>
    /\ (cfg.providers.kind = "array" /\ Len(providers) = 0)
         => (phase = "failed" /\ error = ProviderListMessage)
    /\ (cfg.senders.kind = "array" /\ Len(senders) = 0)
         => /\ phase = "failed"
            /\ (cfg.providers.kind = "array" /\ Len(providers) > 0)
                 => error = SenderListMessage
    /\ phase = "failed" => (client = NoClient /\ call.shape = "none")

\* C10 witness: both lists empty on a safe configuration: the provider
\* message is the one thrown.
C10_Witness ==
  /\ phase = "failed"
  /\ cfg.safe
  /\ cfg.providers.kind = "array" /\ Len(providers) = 0
  /\ cfg.senders.kind = "array" /\ Len(senders) = 0
  /\ error = ProviderListMessage

\* the call failed with the error named `name`: returned in a failure
\* Result or raised
FailedWithName(name) ==
  \/ /\ call.out.type = "return"
     /\ call.out.result.status = "failure"
     /\ call.out.result.error.name = name
  \/ /\ call.out.type = "throw"
     /\ call.out.fault.name = name

\* C11: on a facade that construction accepted, no send through any entry
\* point, whatever `provider` and `from` it carries, ends in ProviderNotFound
\* or SenderNotFound: the provider the send resolves is an entry of the
\* provider list, and the sender handed to a transport is an entry of the
\* sender list.
C11_NeverNotFound ==
  call.shape # "none" =>
    /\ ~FailedWithName("ProviderNotFoundError")
    /\ ~FailedWithName("SenderNotFoundError")
    /\ call.out.provider \in 1..Len(providers)
    /\ \A n \in 1..Len(call.out.invoked) :
         call.out.invoked[n].params.from \in 1..Len(senders)

\* C11 witness: a send naming a provider id and a sender id that no
\* configured entry has, which went to the first provider's transport with
\* the first sender.
C11_Witness ==
  /\ GenericCall
  /\ call.params.provider \notin ({undefined} \cup ExtractAllIDsOnProviders(providers))
  /\ call.params.from \notin ({undefined} \cup ExtractAllIDsOnSenders(senders))
  /\ "default" \notin ExtractAllIDsOnProviders(providers)
  /\ "default" \notin ExtractAllIDsOnSenders(senders)
  /\ Len(call.out.invoked) = 1
  /\ call.out.invoked[1].provider = 1
  /\ call.out.invoked[1].params.from = 1

\* the id the error of a failed call carries
ErrorId ==
  IF call.out.type = "throw" THEN call.out.fault.id
  ELSE call.out.result.error.id

\* C15 (as claimed): when a send fails with AttachmentsNotSupported, the id
\* the error carries is the id of the provider the send resolved, also when
\* that provider was reached by the fallback to the first entry.
C15_ErrorCarriesResolvedId ==
  (call.shape # "none" /\ AttachmentsNotSupported) =>
    /\ call.out.provider \in 1..Len(providers)
    /\ ErrorId = providers[call.out.provider].id

\* the capability check refuses the call's attachments on the provider the
\* call resolved
Refused ==
  /\ call.out.provider \in 1..Len(providers)
  /\ RejectsAttachments(providers[call.out.provider], call.params.attachments)

\* C16: a send invokes a transport at most once, and only the resolved
\* provider's; a send the capability check refuses invokes none (the check
\* comes before the invocation), a send that passes invokes exactly one,
\* once, also when the transport fails or raises: nothing is retried.
C16_TransportAtMostOnce ==
  call.shape # "none" =>
    /\ Len(call.out.invoked) <= 1
    /\ \A n \in 1..Len(call.out.invoked) :
         call.out.invoked[n].provider = call.out.provider
    /\ Refused => call.out.invoked = <<>>
    /\ (FailedWithName("AttachmentNotSupportedByProviderError")
        \/ FailedWithName("ProviderNotFoundError")
        \/ FailedWithName("SenderNotFoundError")) => call.out.invoked = <<>>
    /\ ~Refused => Len(call.out.invoked) = 1

\* C16 witness: a send whose transport failed: invoked once, not again.
C16_Witness ==
  /\ call.shape # "none"
  /\ ~Refused
  /\ call.tout.type = "resolve" /\ call.tout.result = Failure(TransportError)
  /\ Len(call.out.invoked) = 1
  /\ call.out.invoked[1].provider = call.out.provider

\* C17: whenever a transport was invoked and gave a Result, the send ends as
\* that Result says: a transport Failure(error) reaches the caller with the
\* same error, returned as the same failure Result by a safe facade and
\* raised by a non-safe one, and a transport Success is a successful send.
C17_TransportPassThrough ==
  (/\ call.shape # "none"
   /\ Len(call.out.invoked) = 1
   /\ call.tout.type = "resolve")
  => IF call.tout.result.status = "failure"
     THEN IF cfg.safe
          THEN call.out.type = "return" /\ call.out.result = call.tout.result
          ELSE call.out.type = "throw" /\ call.out.fault = call.tout.result.error
     ELSE Succeeded

\* C17 witness: a non-safe send whose transport returned a failure raised
\* the transport's error.
C17_Witness ==
  /\ call.shape # "none"
  /\ ~cfg.safe
  /\ Len(call.out.invoked) = 1
  /\ call.tout.type = "resolve" /\ call.tout.result = Failure(TransportError)
  /\ call.out.type = "throw" /\ call.out.fault = TransportError

\* C18 (as claimed): a send fails with AttachmentsNotSupported only when it
\* carries one or more attachments and the resolved provider has
\* supportsAttachments = false; on a provider with supportsAttachments =
\* true it never does, whatever the `attachments` field holds.
C18_OnlyWhenUnsupported ==
  (call.shape # "none" /\ AttachmentsNotSupported) =>
    /\ call.params.attachments.type = "array"
    /\ call.params.attachments.length >= 1
    /\ ~providers[call.out.provider].options.supportsAttachments

\* what the generic send does with params on the facade alone, the
\* transport settling as tout
Alone(params, tout) == Apply(client["send"], cfg, params, tout)

\* C12: of sends in flight at once, interleaved in any order where their
\* transports settle, each resolves the provider and the sender, invokes
\* the transport and ends exactly as it does when it runs alone with the
\* same params and the same transport outcome.
C12_ConcurrentIndependence ==
  \A i \in 1..MaxCalls :
    /\ frames[i].pc = "awaiting" =>
         \A tout \in TransportOutcomes :
           /\ frames[i].provider = Alone(frames[i].params, tout).provider
           /\ frames[i].sender = Alone(frames[i].params, tout).sender
           /\ frames[i].invoked = Alone(frames[i].params, tout).invoked
    /\ frames[i].pc = "done" =>
         frames[i].out = Alone(frames[i].params, frames[i].tout)

\* C12 witness: the first call has ended through the first provider while
\* the second, which resolved the other provider and another sender, is
\* still in flight.
C12_Witness ==
  /\ frames[1].pc = "done"
  /\ frames[1].out.provider = 1
  /\ Len(frames[1].out.invoked) = 1
  /\ frames[2].pc = "awaiting"
  /\ frames[2].provider = 2
  /\ frames[2].sender # frames[1].out.sender

\* C13: no step of a send, failed or not, changes the provider list, the
\* sender list, the safe flag or the entry points of the facade, and a send
\* that ends after others did ends as it does on the facade as constructed.
C13_ConfigurationUnchanged ==
  [][/\ cfg' = cfg
     /\ client' = client
     /\ client' = BuildClient(cfg)
     /\ phase' = "ready"
     /\ \A i \in 1..MaxCalls :
          (frames[i].pc # "done" /\ frames'[i].pc = "done")
            => frames'[i].out = Apply(BuildClient(cfg)["send"], cfg,
                                       frames'[i].params, frames'[i].tout)]_vars

\* C13 witness: after a send the capability check refused and a send whose
\* transport raised, the facade is as constructed.
C13_Witness ==
  /\ frames[1].pc = "done"
  /\ frames[1].tout = NotInvoked
  /\ frames[1].out.invoked = <<>>
  /\ frames[2].pc = "done"
  /\ frames[2].tout.type = "reject"
  /\ client = BuildClient(cfg)
  /\ cfg \in ConcParams

\* C14: plunk() and resend() throw the 'Missing API key' Error and return
\* no provider whenever the `apiKey` parameter is omitted or empty and the
\* environment variable is not there to replace it (no `process`, unset, or
\* empty; an empty parameter is not replaced at all); no provider having
\* been built, no send ever gets to report the missing key.
C14_MissingApiKeyAtConstruction ==
  adapter.built # "none" =>
    /\ (\/ adapter.params.apiKey = String("")
        \/ /\ adapter.params.apiKey = NotGiven
           /\ adapter.env \in {NoProcess, undefined, ""})
       => /\ adapter.built = "threw"
          /\ adapter.error = MissingApiKey(adapter.kind)
    /\ adapter.built = "threw" =>
         /\ sends = NoSends
         /\ resolvedApiKey = undefined
         /\ returned = [url |-> {}, key |-> {}]

\* C14 witness: a factory called with apiKey: '' threw.
C14_Witness ==
  /\ adapter.built = "threw"
  /\ adapter.params.apiKey = String("")
  /\ adapter.error = MissingApiKey(adapter.kind)

\* a plunk provider has been built
Plunk == adapter.built = "provider" /\ adapter.kind = "plunk"

\* the base URLs and API keys a request of the provider may rightly carry:
\* what the functions have returned, the strings given instead of
\* functions, and the default base URL
GoodUrls ==
  returned.url \cup
    (IF adapter.params.baseUrl.type = "string" THEN {adapter.params.baseUrl.value}
     ELSE IF adapter.params.baseUrl.type = undefined THEN {"https://api.useplunk.com"}
     ELSE {})
GoodKeys ==
  returned.key \cup
    (IF adapter.apiKey.type = "string" THEN {adapter.apiKey.value} ELSE {})

\* every request in flight carries such a base URL and such an API key
RequestsWellFormed ==
  \A i \in 1..MaxCalls :
    sends[i].pc = "fetching" =>
      /\ sends[i].request.url \in GoodUrls
      /\ sends[i].request.key \in GoodKeys

\* C19 (as claimed): with sends on one plunk provider interleaved at the
\* awaits of the baseUrl and apiKey functions, every request carries a base
\* URL and an API key the functions returned, never an unset value; and once
\* a non-empty value has been cached, a send called later does not call that
\* function.
C19_LazyCacheSafe ==
  [][Plunk =>
      /\ RequestsWellFormed'
      /\ \A i \in 1..MaxCalls :
           /\ (sends[i].pc = "idle" /\ sends'[i].pc # "idle") =>
                /\ EverCached(returned.url, resolvedUrl) => ~calling'.url
                /\ EverCached(returned.key, resolvedApiKey) => ~calling'.key
           /\ (sends[i].pc = "awaitUrl" /\ sends'[i].pc # "awaitUrl"
               /\ sends[i].afterKey) => ~calling'.key]_vars

\* a non-empty value is cached and no promise of the function is pending
UrlSettled ==
  /\ resolvedUrl \notin {undefined, ""}
  /\ \A j \in 1..MaxCalls : sends[j].pc # "awaitUrl"
KeySettled ==
  /\ resolvedApiKey \notin {undefined, ""}
  /\ \A j \in 1..MaxCalls : sends[j].pc # "awaitKey"

\* C19 (amended): every request carries a base URL and an API key the
\* functions returned (or the configured string, or the default URL), never
\* an unset value; and from the moment a non-empty value is cached and no
\* promise of that function is pending, the value stays cached and no send
\* calls the function.
C19_LazyCacheSettled ==
  [][Plunk =>
      /\ RequestsWellFormed'
      /\ UrlSettled => (resolvedUrl' = resolvedUrl /\ ~calling'.url)
      /\ KeySettled => (resolvedApiKey' = resolvedApiKey /\ ~calling'.key)]_vars

\* C19 witness: two sends raced on the first use of an apiKey function: one
\* has its key and its request is out, the other still awaits the function.
C19_Witness ==
  /\ Plunk
  /\ adapter.apiKey = Function("promise")
  /\ adapter.params.baseUrl = Function("promise")
  /\ sends[1].pc = "fetching"
  /\ sends[1].request = [url |-> "u1", key |-> "k1"]
  /\ sends[2].pc = "awaitKey"
  /\ resolvedApiKey = "k1"

\* C20 (as claimed): a send on a plunk provider never raises: it ends by
\* returning a Result, status 'success' or 'failure', also when a baseUrl
\* or apiKey function throws or its promise rejects.
C20_TransportNeverRaises ==
  Plunk =>
    \A i \in 1..MaxCalls :
      sends[i].pc = "done" =>
        /\ sends[i].out.type = "resolve"
        /\ sends[i].out.result.status \in {"success", "failure"}

\* the mode of the entry points of the constructed facade
Mode == IF cfg.safe THEN "result" ELSE "throwing"

\* C21 (as claimed): no entry point of a constructed facade is overwritten
\* by another: `send` is the generic send, and the entry point stored under
\* a non-default provider id p is the one bound to provider p, also when a
\* sender has the same id.
C21_NoEntryOverwritten ==
  phase = "ready" =>
    /\ client["send"] = GenericEntry(Mode)
    /\ \A p \in ExtractNonDefaultProviderIDs(providers) :
         client[p] = ProviderEntry(p, Mode)

\* C22 (as claimed): every provider built by a shipped factory (plunk,
\* resend) carries an options object with a boolean supportsAttachments,
\* and the facade's capability check on a send through it ends in pass or
\* in the attachments-not-supported refusal, never in a fault raised while
\* reading the descriptor.
C22_CapabilityDescriptor ==
  adapter.built = "provider" =>
    /\ adapter.options.type = "object"
    /\ adapter.options.supportsAttachments \in BOOLEAN
    /\ call.shape = "check" => call.out \in {"pass", "reject"}

====
